---- MODULE Spec2Model ----
(***************************************************************************)
(* Task-management HTTP API: router -> service -> repository -> store,     *)
(* behind the slowapi rate limiter and the security-header middleware.     *)
(*                                                                         *)
(* One request is one step: middleware chain, validation, limiter check,   *)
(* endpoint, session commit or rollback, error mapping, header injection.  *)
(* The staged runs take a request through its store session await by       *)
(* await, with the sessions of other requests open beside it.              *)
(***************************************************************************)
EXTENDS Integers, Sequences, FiniteSets, TLC

VARIABLES
    store,      \* committed rows of the task table: id -> row
    seq,        \* last value handed out by the id sequence of the table
    buckets,    \* limiter storage: key -> [count, expires]
    now,        \* wall clock, seconds
    resp,       \* the response the client received for the last request
    last,       \* what the last request was and how far it got
    window,     \* per limiter key: its route, and the requests let through in its current window
    created,    \* the ids returned by 201 responses, in order
    deleted,    \* the ids whose delete returned 204, in order
    sent,       \* requests sent so far
    failures,   \* store failures injected so far
    mode,       \* the workload of this run
    burstRoute, \* the route a burst run hammers ("none" in the other runs)
    inflight,   \* concurrent run: requests waiting for the limiter, and in their handler
    admits,     \* span run: per limiter key, when its admitted requests came, window by window
    sessions    \* staged run: the requests in progress, each with its store session

vars == <<store, seq, buckets, now, resp, last, window, created, deleted,
          sent, failures, mode, burstRoute, inflight, admits, sessions>>

----------------------------------------------------------------------------
(* Bounds of the model *)

MaxRequests == 3
MaxCorsRequests == 1
MaxFailures == 1
MaxTime == 60
TickStep == 30
MaxId == 2
MaxOver == 5
MaxSetup == 1
MaxFieldRequests == 2
MaxListTasks == 2
MaxBulkTasks == 1001
MaxSessions == 2
MaxStaged == 1

----------------------------------------------------------------------------
(* Data: app/models/task.py *)

Priority == {"low", "medium", "high"}
Status == {"todo", "in_progress", "done", "cancelled"}

NoneValue == "None"

MinTitleLen == 1
MaxTitleLen == 200
MaxDescriptionLen == 2000

X10 == "xxxxxxxxxx"
X50 == X10 \o X10 \o X10 \o X10 \o X10
X200 == X50 \o X50 \o X50 \o X50
X2000 == X200 \o X200 \o X200 \o X200 \o X200 \o X200 \o X200 \o X200 \o X200 \o X200

\* TaskBase: the defaults of the fields a create payload leaves out
TaskBase == [description |-> NoneValue, priority |-> "medium", status |-> "todo",
             due_date |-> NoneValue]

\* due_date validator of TaskCreate and TaskUpdate: a timezone offset is dropped
remove_timezone(v) ==
    CASE v = "2026-12-31T23:59:59+05:00" -> "2026-12-31T23:59:59"
      [] v = "2026-12-31T23:59:59Z" -> "2026-12-31T23:59:59"
      [] OTHER -> v

Field(p, f) == IF f \in DOMAIN p THEN p[f] ELSE NoneValue

\* pydantic validation of a TaskCreate body (a payload is the JSON object: field -> value)
TaskCreateValid(p) ==
    /\ "title" \in DOMAIN p
    /\ p.title # NoneValue
    /\ Len(p.title) >= MinTitleLen /\ Len(p.title) <= MaxTitleLen
    /\ ("description" \in DOMAIN p /\ p.description # NoneValue)
          => Len(p.description) <= MaxDescriptionLen
    /\ "priority" \in DOMAIN p => p.priority \in Priority
    /\ "status" \in DOMAIN p => p.status \in Status

\* pydantic validation of a TaskUpdate body: every field optional, None allowed
TaskUpdateValid(p) ==
    /\ ("title" \in DOMAIN p /\ p.title # NoneValue)
          => (Len(p.title) >= MinTitleLen /\ Len(p.title) <= MaxTitleLen)
    /\ ("description" \in DOMAIN p /\ p.description # NoneValue)
          => Len(p.description) <= MaxDescriptionLen
    /\ ("priority" \in DOMAIN p /\ p.priority # NoneValue) => p.priority \in Priority
    /\ ("status" \in DOMAIN p /\ p.status # NoneValue) => p.status \in Status

\* TaskCreateDump that always takes the default status
TaskCreateDump_DefaultStatus(p) ==
    [title |-> p.title,
     description |-> IF "description" \in DOMAIN p THEN p.description ELSE TaskBase.description,
     priority |-> IF "priority" \in DOMAIN p THEN p.priority ELSE TaskBase.priority,
     status |-> TaskBase.status,
     due_date |-> IF "due_date" \in DOMAIN p THEN remove_timezone(p.due_date)
                  ELSE TaskBase.due_date]

\* TaskCreate.model_dump(): every field, defaults filled in, due_date normalised
TaskCreateDump(p) ==
    [title |-> p.title,
     description |-> IF "description" \in DOMAIN p THEN p.description ELSE TaskBase.description,
     priority |-> IF "priority" \in DOMAIN p THEN p.priority ELSE TaskBase.priority,
     status |-> IF "status" \in DOMAIN p THEN p.status ELSE TaskBase.status,
     due_date |-> IF "due_date" \in DOMAIN p THEN remove_timezone(p.due_date)
                  ELSE TaskBase.due_date]

\* the fields TaskUpdate declares; any other key of a body is ignored
TaskUpdateFields == {"title", "description", "priority", "status", "due_date"}

\* TaskUpdate.model_dump(exclude_unset=True): only the supplied fields
TaskUpdateDump(p) ==
    [f \in DOMAIN p \cap TaskUpdateFields |->
        IF f = "due_date" THEN remove_timezone(p[f]) ELSE p[f]]

\* Task(**dump): the row, id from the table's sequence, both timestamps utcnow()
Task(d, id, t) ==
    [id |-> id, title |-> d.title, description |-> d.description,
     priority |-> d.priority, status |-> d.status, due_date |-> d.due_date,
     created_at |-> t, updated_at |-> t]

----------------------------------------------------------------------------
(* Rate limiter: app/core/rate_limiter.py and the limiter.limit decorators.  *)
(* Limiter(key_func=get_remote_address) is built with slowapi's defaults:   *)
(* in-memory storage, fixed-window strategy, key_style "url" (the scope of  *)
(* a decorated route's limit is the request's URL path).                    *)

Routes == {"root", "health_check", "get_tasks", "create_task", "get_task_stats",
           "get_task", "update_task", "delete_task"}

IdRoutes == {"get_task", "update_task", "delete_task"}
StoreRoutes == Routes \ {"root", "health_check"}

\* RateLimit with the create quota copied from the update route
RateLimit_CreateThirty(route) ==
    CASE route = "root" -> 100
      [] route = "health_check" -> 200
      [] route = "get_tasks" -> 100
      [] route = "create_task" -> 30
      [] route = "get_task_stats" -> 50
      [] route = "get_task" -> 100
      [] route = "update_task" -> 30
      [] route = "delete_task" -> 20

\* the quota each route declares in its @limiter.limit("N/minute")
RateLimit(route) ==
    CASE route = "root" -> 100
      [] route = "health_check" -> 200
      [] route = "get_tasks" -> 100
      [] route = "create_task" -> 20
      [] route = "get_task_stats" -> 50
      [] route = "get_task" -> 100
      [] route = "update_task" -> 30
      [] route = "delete_task" -> 20

\* "/minute": the window of every declared limit, in seconds
Window == 60

Method(route) ==
    CASE route = "create_task" -> "POST"
      [] route = "update_task" -> "PATCH"
      [] route = "delete_task" -> "DELETE"
      [] OTHER -> "GET"

\* the URL path a request for the route is sent to
Path(route, task_id) ==
    CASE route = "root" -> "/"
      [] route = "health_check" -> "/health"
      [] route \in {"get_tasks", "create_task"} -> "/api/v1/tasks/"
      [] route = "get_task_stats" -> "/api/v1/tasks/stats"
      [] OTHER -> "/api/v1/tasks/" \o ToString(task_id)

\* the storage key of one limit: key_func(request), the limit's scope, the limit itself
key_for(client, route, task_id) ==
    <<client, Path(route, task_id), RateLimit(route)>>

\* expire with the boundary instant still inside the window
expire_Strict(bk, key, t) ==
    IF key \in DOMAIN bk /\ bk[key].expires < t
    THEN [k \in DOMAIN bk \ {key} |-> bk[k]]
    ELSE bk

\* MemoryStorage.get: an expired entry is dropped on access
expire(bk, key, t) ==
    IF key \in DOMAIN bk /\ bk[key].expires <= t
    THEN [k \in DOMAIN bk \ {key} |-> bk[k]]
    ELSE bk

\* incr that writes back the count it found when the window opened
incr_Lost(bk, key, t) ==
    LET live == expire(bk, key, t)
    IN IF key \in DOMAIN live THEN live
       ELSE [k \in DOMAIN live \cup {key} |->
                IF k = key THEN [count |-> 1, expires |-> t + Window] ELSE live[k]]

\* MemoryStorage.incr: count one hit; the first hit of a window sets its expiry
incr(bk, key, t) ==
    LET live == expire(bk, key, t)
        n == IF key \in DOMAIN live THEN live[key].count + 1 ELSE 1
        e == IF n = 1 THEN t + Window ELSE live[key].expires
    IN [k \in DOMAIN live \cup {key} |->
            IF k = key THEN [count |-> n, expires |-> e] ELSE live[k]]

\* FixedWindowRateLimiter.hit: the hit is counted, then compared with the quota
hit(bk, key, limit) == bk[key].count <= limit

----------------------------------------------------------------------------
(* Security headers and CORS: app/main.py *)

SecurityHeaderNames ==
    {"x-content-type-options", "x-frame-options", "x-xss-protection",
     "strict-transport-security", "content-security-policy", "referrer-policy",
     "permissions-policy"}

SecurityHeaderValue(h) ==
    CASE h = "x-content-type-options" -> "nosniff"
      [] h = "x-frame-options" -> "DENY"
      [] h = "x-xss-protection" -> "1; mode=block"
      [] h = "strict-transport-security" -> "max-age=31536000; includeSubDomains"
      [] h = "content-security-policy" ->
            "default-src 'self'; script-src 'self' 'unsafe-inline' 'unsafe-eval' https://cdn.jsdelivr.net; style-src 'self' 'unsafe-inline' https://cdn.jsdelivr.net; img-src 'self' data: https://fastapi.tiangolo.com; connect-src 'self' http://localhost:* http://127.0.0.1:*"
      [] h = "referrer-policy" -> "strict-origin-when-cross-origin"
      [] h = "permissions-policy" -> "geolocation=(), microphone=()"

\* SetIfAbsent without the "not in" test
SetAlways(headers, h) ==
    [k \in DOMAIN headers \cup {h} |->
        IF k = h THEN SecurityHeaderValue(h) ELSE headers[k]]

\* one "if NAME not in response.headers: response.headers[NAME] = VALUE"
\* (header names compare case-insensitively; they are kept in lower case here)
SetIfAbsent(headers, h) ==
    IF h \in DOMAIN headers THEN headers
    ELSE [k \in DOMAIN headers \cup {h} |->
            IF k = h THEN SecurityHeaderValue(h) ELSE headers[k]]

\* dispatch that leaves error responses as they are
dispatch_SuccessOnly(response) ==
    IF response.status >= 400 THEN response
    ELSE [response EXCEPT !.headers =
            [k \in DOMAIN @ \cup SecurityHeaderNames |->
                IF k \in DOMAIN @ THEN @[k] ELSE SecurityHeaderValue(k)]]

\* SecurityHeadersMiddleware.dispatch, after call_next returned a response
dispatch(response) ==
    LET h1 == SetIfAbsent(response.headers, "x-content-type-options")
        h2 == SetIfAbsent(h1, "x-frame-options")
        h3 == SetIfAbsent(h2, "x-xss-protection")
        h4 == SetIfAbsent(h3, "strict-transport-security")
        h5 == SetIfAbsent(h4, "content-security-policy")
        h6 == SetIfAbsent(h5, "referrer-policy")
        h7 == SetIfAbsent(h6, "permissions-policy")
    IN [response EXCEPT !.headers = h7]

BACKEND_CORS_ORIGINS ==
    {"http://localhost:3000", "http://localhost:8000", "http://localhost:8080",
     "http://127.0.0.1:3000", "http://127.0.0.1:8000", "http://127.0.0.1:8080"}

CORS_MAX_AGE == 600

AllowMethods == {"GET", "POST", "PATCH", "DELETE", "OPTIONS"}

Merge(f, g) == [k \in DOMAIN f \cup DOMAIN g |-> IF k \in DOMAIN g THEN g[k] ELSE f[k]]

\* CORSMiddleware on an ordinary request: the headers it adds to the app's response
CorsSimple(response, origin) ==
    IF origin = NoneValue THEN response
    ELSE LET cred == ("access-control-allow-credentials" :> "true")
             allow == IF origin \in BACKEND_CORS_ORIGINS
                      THEN ("access-control-allow-origin" :> origin) @@ ("vary" :> "Origin")
                      ELSE <<>>
         IN [response EXCEPT !.headers = Merge(Merge(@, cred), allow)]

\* CORSMiddleware on a preflight request: it answers itself, the router is not reached
CorsPreflight(origin, requested_method) ==
    LET base == ("vary" :> "Origin")
                @@ ("access-control-allow-methods" :> "GET, POST, PATCH, DELETE, OPTIONS")
                @@ ("access-control-max-age" :> ToString(CORS_MAX_AGE))
                @@ ("access-control-allow-credentials" :> "true")
                @@ ("content-type" :> "text/plain; charset=utf-8")
        okOrigin == origin \in BACKEND_CORS_ORIGINS
        okMethod == requested_method \in AllowMethods
        hdrs == IF okOrigin THEN Merge(base, ("access-control-allow-origin" :> origin))
                ELSE base
    IN [status |-> IF okOrigin /\ okMethod THEN 200 ELSE 400,
        headers |-> hdrs,
        body |-> [kind |-> IF okOrigin /\ okMethod THEN "OK" ELSE "Disallowed CORS"]]

----------------------------------------------------------------------------
(* Repository: app/repositories/task_repository.py.  st is the table as the *)
(* request's session sees it; Optional[Task] is a sequence of 0 or 1 rows.  *)

RECURSIVE SortedIds(_)
\* the ids of a set in ascending order
SortedIds(S) ==
    IF S = {} THEN <<>>
    ELSE LET m == CHOOSE x \in S : \A y \in S : x <= y
         IN <<m>> \o SortedIds(S \ {m})

Min(a, b) == IF a <= b THEN a ELSE b

TaskRepository_get(st, task_id) ==
    IF task_id \in DOMAIN st THEN <<st[task_id]>> ELSE <<>>

\* the orders in which the table can hand out its rows to a query that has no
\* ORDER BY: any
ScanOrders(st) ==
    {f \in [1..Cardinality(DOMAIN st) -> DOMAIN st] :
        \A i \in DOMAIN f, j \in DOMAIN f : i # j => f[i] # f[j]}

\* the order of a table that was only appended to and is read front to back
HeapOrder(st) ==
    IF DOMAIN st = 1..Cardinality(DOMAIN st)
    THEN [k \in 1..Cardinality(DOMAIN st) |-> k]
    ELSE SortedIds(DOMAIN st)

\* get_multi: a filter is applied when its value is truthy; the count runs over the
\* filtered query, the page is OFFSET skip LIMIT limit of the filtered rows in
\* the order of this scan; comparing an enum column with a value that is none of
\* its labels makes the store raise
TaskRepository_get_multi(st, skip, limit, status, priority, scan) ==
    LET Match(i) ==
            /\ (status # NoneValue /\ status # "") => st[i].status = status
            /\ (priority # NoneValue /\ priority # "") => st[i].priority = priority
        rows == SelectSeq(scan, Match)
        page == SubSeq(rows, skip + 1, Min(skip + limit, Len(rows)))
    IN [tasks |-> [k \in 1..Len(page) |-> st[page[k]]],
        total |-> Len(rows),
        raised |-> \/ status \notin Status \cup {NoneValue, ""}
                   \/ priority \notin Priority \cup {NoneValue, ""}]

\* create with the id taken from the largest id in the table
TaskRepository_create_MaxId(st, sq, obj_in, t) ==
    LET top == IF DOMAIN st = {} THEN 0
               ELSE CHOOSE x \in DOMAIN st : \A y \in DOMAIN st : y <= x
        db_obj == Task(TaskCreateDump(obj_in), top + 1, t)
    IN [st |-> [i \in DOMAIN st \cup {db_obj.id} |->
                    IF i = db_obj.id THEN db_obj ELSE st[i]],
        sq |-> sq + 1,
        row |-> db_obj]

\* create: the INSERT draws the next value of the id sequence
TaskRepository_create(st, sq, obj_in, t) ==
    LET db_obj == Task(TaskCreateDump(obj_in), sq + 1, t)
    IN [st |-> [i \in DOMAIN st \cup {db_obj.id} |->
                    IF i = db_obj.id THEN db_obj ELSE st[i]],
        sq |-> sq + 1,
        row |-> db_obj]

\* update that writes the defaults of TaskBase to the fields the body left out
TaskRepository_update_Replace(st, db_obj, obj_in) ==
    LET update_data == TaskUpdateDump(obj_in)
        row == [f \in DOMAIN db_obj |->
                    IF f \in DOMAIN update_data THEN update_data[f]
                    ELSE IF f \in DOMAIN TaskBase THEN TaskBase[f] ELSE db_obj[f]]
    IN [st |-> [st EXCEPT ![db_obj.id] = row], row |-> row,
        raised |-> \E f \in {"title", "priority", "status"} : row[f] = NoneValue]

\* update that stamps the row it writes
TaskRepository_update_Touch(st, db_obj, obj_in) ==
    LET update_data == TaskUpdateDump(obj_in)
        row == [f \in DOMAIN db_obj |->
                    IF f \in DOMAIN update_data THEN update_data[f]
                    ELSE IF f = "updated_at" THEN db_obj[f] + 1 ELSE db_obj[f]]
    IN [st |-> [st EXCEPT ![db_obj.id] = row], row |-> row,
        raised |-> \E f \in {"title", "priority", "status"} : row[f] = NoneValue]

\* update: setattr for every field of the dump, nothing else
\* (the flush raises when a NOT NULL column was set to None: the columns of the
\* fields TaskBase declares without Optional)
TaskRepository_update(st, db_obj, obj_in) ==
    LET update_data == TaskUpdateDump(obj_in)
        row == [f \in DOMAIN db_obj |->
                    IF f \in DOMAIN update_data THEN update_data[f] ELSE db_obj[f]]
    IN [st |-> [st EXCEPT ![db_obj.id] = row], row |-> row,
        raised |-> \E f \in {"title", "priority", "status"} : row[f] = NoneValue]

\* delete that reports success and leaves the row
TaskRepository_delete_Soft(st, task_id) ==
    [st |-> st, deleted |-> TaskRepository_get(st, task_id) # <<>>]

TaskRepository_delete(st, task_id) ==
    LET obj == TaskRepository_get(st, task_id)
    IN IF obj # <<>>
       THEN [st |-> [i \in DOMAIN st \ {task_id} |-> st[i]], deleted |-> TRUE]
       ELSE [st |-> st, deleted |-> FALSE]

----------------------------------------------------------------------------
(* Service: app/services/task_service.py *)

TaskService_get_task(st, task_id) == TaskRepository_get(st, task_id)

TaskService_get_tasks(st, skip, limit, status, priority, scan) ==
    TaskRepository_get_multi(st, skip, limit, status, priority, scan)

TaskService_create_task(st, sq, task_in, t) == TaskRepository_create(st, sq, task_in, t)

TaskService_update_task(st, task_id, task_in) ==
    LET task == TaskRepository_get(st, task_id)
    IN IF task = <<>> THEN [st |-> st, row |-> <<>>, raised |-> FALSE]
       ELSE LET u == TaskRepository_update(st, task[1], task_in)
            IN [st |-> u.st, row |-> <<u.row>>, raised |-> u.raised]

TaskService_delete_task(st, task_id) == TaskRepository_delete(st, task_id)

----------------------------------------------------------------------------
(* Endpoints: app/api/v1/endpoints/tasks.py and app/main.py.  An endpoint   *)
(* yields its status and body, the exception it raised, the session's view  *)
(* of the table, the sequence, and what the service returned.               *)

MaxLimit == 100
StatsLimit == 1000

NotFound(task_id, st, sq, result) ==
    [status |-> 404, exc |-> "HTTPException",
     body |-> [detail |-> "Task with id " \o ToString(task_id) \o " not found"],
     st |-> st, sq |-> sq, result |-> result]

Ok(status, body, st, sq, result) ==
    [status |-> status, exc |-> "none", body |-> body, st |-> st, sq |-> sq,
     result |-> result]

\* a store round trip that fails: the driver's exception leaves the endpoint
Raised(st, sq) ==
    [status |-> 500, exc |-> "Exception", body |-> [detail |-> "Internal Server Error"],
     st |-> st, sq |-> sq, result |-> "raised"]

root(st, sq) == Ok(200, [message |-> "Welcome to Task Management API"], st, sq, "n/a")

health_check(st, sq) == Ok(200, [status |-> "healthy"], st, sq, "n/a")

create_task(st, sq, task_in, t) ==
    LET c == TaskService_create_task(st, sq, task_in, t)
    IN Ok(201, c.row, c.st, c.sq, "Task")

get_tasks(st, sq, q, scan) ==
    LET r == TaskService_get_tasks(st, q.skip, q.limit, q.status, q.priority, scan)
    IN IF r.raised THEN Raised(st, sq)
       ELSE Ok(200, [tasks |-> r.tasks], st, sq, "list")

\* Count that notes a value as seen instead of counting it
Count_Seen(tasks, f, v) == IF \E k \in DOMAIN tasks : tasks[k][f] = v THEN 1 ELSE 0

Count(tasks, f, v) == Cardinality({k \in DOMAIN tasks : tasks[k][f] = v})

get_task_stats(st, sq, scan) ==
    LET r == TaskService_get_tasks(st, 0, StatsLimit, NoneValue, NoneValue, scan)
        ss == {r.tasks[k].status : k \in DOMAIN r.tasks}
        ps == {r.tasks[k].priority : k \in DOMAIN r.tasks}
    IN Ok(200, [total |-> r.total,
                by_status |-> [v \in ss |-> Count(r.tasks, "status", v)],
                by_priority |-> [v \in ps |-> Count(r.tasks, "priority", v)]],
          st, sq, "list")

get_task(st, sq, task_id) ==
    LET task == TaskService_get_task(st, task_id)
    IN IF task = <<>> THEN NotFound(task_id, st, sq, "None")
       ELSE Ok(200, task[1], st, sq, "Task")

update_task(st, sq, task_id, task_in) ==
    LET u == TaskService_update_task(st, task_id, task_in)
    IN IF u.raised THEN Raised(st, sq)
       ELSE IF u.row = <<>> THEN NotFound(task_id, st, sq, "None")
       ELSE Ok(200, u.row[1], u.st, sq, "Task")

\* delete_task that answers 204 whether or not the task existed
delete_task_Idempotent(st, sq, task_id) ==
    LET d == TaskService_delete_task(st, task_id)
    IN Ok(204, [detail |-> "no content"], d.st, sq, IF d.deleted THEN "True" ELSE "False")

delete_task(st, sq, task_id) ==
    LET d == TaskService_delete_task(st, task_id)
    IN IF ~d.deleted THEN NotFound(task_id, st, sq, "False")
       ELSE Ok(204, [detail |-> "no content"], d.st, sq, "True")

\* the endpoint function of the request's route
endpoint(req, st, sq, t) ==
    IF req.fail = "execute" THEN Raised(st, sq)
    ELSE CASE req.route = "root" -> root(st, sq)
           [] req.route = "health_check" -> health_check(st, sq)
           [] req.route = "create_task" -> create_task(st, sq, req.payload, t)
           [] req.route = "get_tasks" -> get_tasks(st, sq, req.query, req.scan)
           [] req.route = "get_task_stats" -> get_task_stats(st, sq, req.scan)
           [] req.route = "get_task" -> get_task(st, sq, req.task_id)
           [] req.route = "update_task" -> update_task(st, sq, req.task_id, req.payload)
           [] req.route = "delete_task" -> delete_task(st, sq, req.task_id)

\* FastAPI's validation of the request before the endpoint is called
RequestValid(req) ==
    CASE req.route = "create_task" -> TaskCreateValid(req.payload)
      [] req.route = "update_task" -> TaskUpdateValid(req.payload)
      [] req.route = "get_tasks" ->
            req.query.skip >= 0 /\ req.query.limit >= 1 /\ req.query.limit <= MaxLimit
      [] OTHER -> TRUE

----------------------------------------------------------------------------
(* One request through the application: app/main.py, app/core/database.py *)

\* limited with the limit checked after the endpoint ran
limited_AfterEndpoint(req, st, sq, bk, t) ==
    LET key == key_for(req.client, req.route, req.task_id)
        bk1 == incr(bk, key, t)
        e == endpoint(req, st, sq, t)
    IN IF hit(bk1, key, RateLimit(req.route))
       THEN [out |-> e, buckets |-> bk1, allowed |-> TRUE, called |-> TRUE]
       ELSE [out |-> [status |-> 429, exc |-> "RateLimitExceeded",
                      body |-> [error |-> "Rate limit exceeded"],
                      st |-> e.st, sq |-> e.sq, result |-> "n/a"],
             buckets |-> bk1, allowed |-> FALSE, called |-> TRUE]

\* what the decorated endpoint does once FastAPI calls it: slowapi's wrapper
\* counts the request and raises RateLimitExceeded, or runs the endpoint
limited(req, st, sq, bk, t) ==
    LET key == key_for(req.client, req.route, req.task_id)
        bk1 == incr(bk, key, t)
    IN IF hit(bk1, key, RateLimit(req.route))
       THEN [out |-> endpoint(req, st, sq, t), buckets |-> bk1, allowed |-> TRUE,
             called |-> TRUE]
       ELSE [out |-> [status |-> 429, exc |-> "RateLimitExceeded",
                      body |-> [error |-> "Rate limit exceeded"],
                      st |-> st, sq |-> sq, result |-> "n/a"],
             buckets |-> bk1, allowed |-> FALSE, called |-> FALSE]

\* get_db without its rollback: what the session did stays
get_db_NoRollback(req, out, st0) ==
    IF out.exc = "none" /\ req.fail = "commit"
    THEN [Raised(out.st, out.sq) EXCEPT !.result = out.result]
    ELSE out

\* get_db around the endpoint: commit when it returned, rollback when it raised,
\* and the commit itself may fail
get_db(req, out, st0) ==
    IF out.exc = "none" /\ req.fail = "commit"
    THEN [Raised(st0, out.sq) EXCEPT !.result = out.result]
    ELSE IF out.exc = "none" THEN out
    ELSE [out EXCEPT !.st = st0]

\* the router: validation, then the decorated endpoint inside its session
route(req, st, sq, bk, t) ==
    IF ~RequestValid(req)
    THEN [out |-> [status |-> 422, exc |-> "RequestValidationError",
                   body |-> [detail |-> "validation error"],
                   st |-> st, sq |-> sq, result |-> "n/a"],
          buckets |-> bk, allowed |-> FALSE, counted |-> FALSE, called |-> FALSE]
    ELSE LET l == limited(req, st, sq, bk, t)
         IN [out |-> get_db(req, l.out, st), buckets |-> l.buckets,
             allowed |-> l.allowed, counted |-> TRUE, called |-> l.called]

JsonHeaders == ("content-type" :> "application/json")

\* the exception handlers of the app turn the mapped exceptions into responses
exception_handler(out) ==
    [status |-> out.status, headers |-> JsonHeaders, body |-> out.body]

\* ServerErrorMiddleware, outside every other middleware: the answer to an
\* exception that no handler maps
server_error ==
    [status |-> 500, headers |-> ("content-type" :> "text/plain; charset=utf-8"),
     body |-> [detail |-> "Internal Server Error"]]

\* the response as it leaves CORSMiddleware, before SecurityHeadersMiddleware
inner(req, out) == CorsSimple(exception_handler(out), req.origin)

\* the middleware stack around the router: SecurityHeadersMiddleware (added last,
\* outermost), then CORSMiddleware, then the exception handlers; an exception
\* that no handler maps passes through all of them
app(req, out) ==
    IF out.exc = "Exception" THEN server_error
    ELSE dispatch(inner(req, out))

----------------------------------------------------------------------------
(* The requests the model sends.  A run is one workload: "crud" (one        *)
(* client, any request, store failures), "cors" (requests that carry an     *)
(* Origin header, and preflights), "fields" (a create and an update with    *)
(* bodies of every shape), "list" (a few tasks, then page after page of a   *)
(* list query), "burst" (one route hammered until its quota is exceeded,    *)
(* over more than one window), "bulk" (a table grown past the stats cap),   *)
(* "conc" (requests of one client in flight together), "span" (deletes of   *)
(* one id spread over the seconds of its windows), "spread" (bursts of      *)
(* deletes that move on to the next id), "tx" (requests taken through the   *)
(* stages of their store session one after the other, store failures        *)
(* included), "race" (updates and deletes of one task with their sessions   *)
(* open together).                                                          *)

Client1 == "10.0.0.1"
Client2 == "10.0.0.2"
Clients == {Client1, Client2}
Origins == {NoneValue, "http://localhost:3000", "http://evil.example"}

\* create bodies; the first three are the ones every workload sends
CreatePayloads ==
    <<("title" :> "Buy milk"),
      ("title" :> X200) @@ ("description" :> "d") @@ ("priority" :> "high")
          @@ ("status" :> "in_progress") @@ ("due_date" :> "2026-12-31T23:59:59+05:00"),
      ("title" :> "Buy milk") @@ ("priority" :> "nonexistent"),
      ("title" :> ""),
      ("title" :> X200 \o "x"),
      ("title" :> "Plan") @@ ("status" :> "nonexistent"),
      ("title" :> "Plan") @@ ("description" :> X2000) @@ ("priority" :> "low")
          @@ ("status" :> "done"),
      ("title" :> "Plan") @@ ("description" :> X2000 \o "x"),
      ("description" :> "no title"),
      ("title" :> NoneValue)>>

\* update bodies; the first three are the ones every workload sends
UpdatePayloads ==
    <<("status" :> "done"),
      ("title" :> "Renamed") @@ ("priority" :> "low"),
      ("priority" :> "nonexistent"),
      ("title" :> NoneValue),
      ("title" :> ""),
      ("title" :> X200 \o "x"),
      ("description" :> NoneValue),
      ("description" :> X2000 \o "x"),
      ("status" :> "nonexistent"),
      ("priority" :> NoneValue),
      ("status" :> NoneValue),
      ("due_date" :> "2026-12-31T23:59:59+05:00"),
      <<>>,
      ("title" :> "T") @@ ("description" :> X2000) @@ ("priority" :> "high")
          @@ ("status" :> "cancelled") @@ ("due_date" :> NoneValue),
      ("status" :> "done") @@ ("id" :> 7) @@ ("created_at" :> 99) @@ ("updated_at" :> 99)>>

\* the bodies of the general workload
CommonPayloads == {1, 2, 3}

NoQuery == [skip |-> 0, limit |-> 100, status |-> NoneValue, priority |-> NoneValue]

Queries == <<NoQuery, [NoQuery EXCEPT !.limit = 0]>>

\* the first page requests of the "list" workload: every combination of in-range
\* skip and limit with the filters, and one request per out-of-range parameter
ListQueries ==
    {[skip |-> s, limit |-> l, status |-> st, priority |-> pr] :
        s \in {0, 1}, l \in {1, 2, 100}, st \in {NoneValue, "", "todo"},
        pr \in {NoneValue, "high"}}
    \cup {[NoQuery EXCEPT !.skip = -1], [NoQuery EXCEPT !.limit = 0],
          [NoQuery EXCEPT !.limit = 101], [NoQuery EXCEPT !.status = "nonexistent"],
          [NoQuery EXCEPT !.priority = "nonexistent"]}

\* the bodies the "list" workload creates its tasks from
ListPayloads == {1, 2}

\* the request for the page after the one of query q
NextPage(q) == [q EXCEPT !.skip = @ + q.limit]

NoPayload == <<>>

TaskIds == 1..MaxId

Fails(r) == IF r \in StoreRoutes THEN {"none", "execute", "commit"} ELSE {"none"}

Request(c, o, r, id, p, q, f, sc) ==
    [client |-> c, origin |-> o, route |-> r, task_id |-> id, payload |-> p,
     query |-> q, fail |-> f, scan |-> sc]

NoRequest == Request(NoneValue, NoneValue, "none", 0, NoPayload, NoQuery, "none", <<>>)

NoResponse == [status |-> 0, headers |-> <<>>, body |-> <<>>]

NoneInFlight == [waiting |-> 0, admitted |-> 0]

NoLast == [req |-> NoRequest, key |-> <<>>, at |-> 0, counted |-> FALSE, count |-> 0,
           prior |-> 0, priorExpires |-> 0, allowed |-> FALSE, called |-> FALSE,
           result |-> "n/a", inner |-> NoResponse, pages |-> <<>>, kind |-> "none"]

\* responses a handler could return with hardening or CORS headers already set
HandlerResponses ==
    {[status |-> st, headers |-> Merge(Merge(JsonHeaders, h), c), body |-> [detail |-> "x"]] :
        st \in {200, 404},
        h \in {<<>>, ("x-frame-options" :> "SAMEORIGIN"),
                ("content-security-policy" :> "default-src 'none'"),
                ("x-frame-options" :> "SAMEORIGIN")
                    @@ ("content-security-policy" :> "default-src 'none'")},
        c \in {<<>>, ("access-control-allow-origin" :> "http://localhost:3000")
                        @@ ("access-control-allow-credentials" :> "true")}}

CountOf(bk, key, t) ==
    IF key \in DOMAIN bk /\ bk[key].expires > t THEN bk[key].count ELSE 0

\* the clients, origins and store failures of the run's workload
SendClients == IF mode = "burst" /\ burstRoute = "create_task" THEN Clients ELSE {Client1}
SendOrigins == IF mode = "cors" THEN Origins \ {NoneValue} ELSE {NoneValue}
SendFails(r) == IF mode = "crud" /\ failures < MaxFailures THEN Fails(r) ELSE {"none"}
\* ids worth addressing: those handed out so far and the next one
SendIds ==
    CASE mode \in {"burst", "fields", "span"} -> {1}
      [] mode = "spread" -> TaskIds
      [] OTHER -> {i \in TaskIds : i <= seq + 1}
\* the last request was a list or stats request
Queried == last.kind = "request" /\ last.req.route \in {"get_tasks", "get_task_stats"}

\* the last request was a list request that came back with a full page
FullPage ==
    /\ last.kind = "request" /\ last.req.route = "get_tasks" /\ resp.status = 200
    /\ Len(resp.body.tasks) = last.req.query.limit

SendCreates ==
    CASE mode \in {"burst", "bulk"} -> {1}
      [] mode = "list" -> ListPayloads
      [] mode = "fields" -> DOMAIN CreatePayloads
      [] OTHER -> CommonPayloads
SendUpdates ==
    CASE mode = "burst" -> {1}
      [] mode = "fields" -> DOMAIN UpdatePayloads
      [] OTHER -> CommonPayloads
\* a "list" run asks for one first page and then pages on while pages come back full
SendQueries ==
    CASE mode = "burst" -> {NoQuery}
      [] mode = "list" -> IF ~Queried THEN ListQueries
                          ELSE IF FullPage THEN {NextPage(last.req.query)} ELSE {}
      [] OTHER -> {Queries[i] : i \in DOMAIN Queries}
SendScans == IF mode = "list" THEN ScanOrders(store) ELSE {HeapOrder(store)}

\* the requests of the run's workload that the model still sends in this state
Sendable(req) ==
    CASE mode = "crud" -> sent < MaxRequests /\ req.route \in StoreRoutes
      [] mode = "cors" -> sent < MaxCorsRequests
      [] mode = "fields" ->
            sent < MaxFieldRequests /\ req.route \in {"create_task", "update_task"}
      [] mode = "list" ->
            \/ req.route = "create_task" /\ ~Queried /\ seq < MaxListTasks
            \/ req.route = "get_tasks"
            \/ req.route = "get_task_stats" /\ ~Queried
      [] mode = "bulk" ->
            \/ /\ req.route = "create_task" /\ seq < MaxBulkTasks
               /\ CountOf(buckets, key_for(req.client, req.route, 0), now)
                     < RateLimit(req.route)
            \/ req.route = "get_task_stats" /\ seq >= StatsLimit /\ ~Queried
      [] mode \in {"span", "spread"} ->
            /\ req.route = "delete_task"
            /\ CountOf(buckets, key_for(req.client, req.route, req.task_id), now)
                  < RateLimit(req.route) + MaxOver
      [] mode = "burst" ->
            LET n == CountOf(buckets, key_for(req.client, req.route, req.task_id), now)
            IN \/ /\ req.route = burstRoute /\ req.client = Client1
                  /\ n < RateLimit(req.route) + MaxOver
               \/ /\ req.route = burstRoute /\ req.client = Client2
                  /\ n < MaxSetup
               \/ /\ req.route = "create_task" /\ req.client = Client1
                  /\ burstRoute \in IdRoutes /\ seq < MaxSetup

\* the clock ticks while requests are still to come; a burst of creates is
\* rapid-fire: no tick while the burst client's window is open and below its quota
\* (likewise the bursts of a "spread" run, on each id)
MayTick ==
    CASE mode = "crud" -> now = 0 /\ sent < MaxRequests
      [] mode = "cors" -> FALSE
      [] mode = "fields" -> FALSE
      [] mode = "list" -> FALSE
      [] mode = "bulk" ->
            /\ seq < MaxBulkTasks
            /\ CountOf(buckets, key_for(Client1, "create_task", 0), now)
                  >= RateLimit("create_task")
      [] mode = "span" -> now + TickStep <= MaxTime
      [] mode = "spread" ->
            /\ now + TickStep <= MaxTime
            /\ \A id \in TaskIds :
                  LET n == CountOf(buckets, key_for(Client1, "delete_task", id), now)
                  IN n = 0 \/ n >= RateLimit("delete_task")
      [] mode = "burst" ->
            /\ now + TickStep <= MaxTime
            /\ burstRoute = "create_task" =>
                 LET n == CountOf(buckets, key_for(Client1, burstRoute, 0), now)
                 IN n = 0 \/ n >= RateLimit(burstRoute)

----------------------------------------------------------------------------
(* Actions *)

\* one request served: every variable the request touches
Served(req) ==
    \E r \in {route(req, store, seq, buckets, now)},
       key \in {key_for(req.client, req.route, req.task_id)} :
       /\ store' = r.out.st
       /\ seq' = r.out.sq
       /\ buckets' = r.buckets
       /\ resp' = app(req, r.out)
       /\ last' = [req |-> req, key |-> key, at |-> now, counted |-> r.counted,
                   count |-> IF r.counted THEN r.buckets[key].count ELSE 0,
                   prior |-> IF key \in DOMAIN buckets THEN buckets[key].count ELSE 0,
                   priorExpires |-> IF key \in DOMAIN buckets THEN buckets[key].expires ELSE 0,
                   allowed |-> r.allowed, called |-> r.called,
                   result |-> r.out.result,
                   inner |-> IF r.out.exc = "Exception" THEN NoResponse
                             ELSE inner(req, r.out),
                   pages |-> IF req.route = "get_tasks" /\ r.out.status = 200
                             THEN LET ids == [k \in DOMAIN r.out.body.tasks |->
                                                 r.out.body.tasks[k].id]
                                  IN IF /\ last.pages # <<>>
                                        /\ req.query = NextPage(last.req.query)
                                     THEN Append(last.pages, ids)
                                     ELSE IF req.query.skip = 0 THEN <<ids>> ELSE <<>>
                             ELSE <<>>,
                   kind |-> "request"]
       /\ window' = IF r.counted
                    THEN [k \in DOMAIN window \cup {key} |->
                            IF k # key THEN window[k]
                            ELSE [route |-> req.route,
                                  admitted |->
                                     (IF CountOf(buckets, key, now) > 0
                                      THEN window[key].admitted ELSE 0)
                                     + (IF r.allowed THEN 1 ELSE 0)]]
                    ELSE window
       /\ created' = IF r.out.exc = "none" /\ r.out.status = 201
                     THEN Append(created, r.out.body.id) ELSE created
       /\ deleted' = IF r.out.exc = "none" /\ r.out.status = 204
                     THEN Append(deleted, req.task_id) ELSE deleted
       /\ sent' = IF mode \in {"burst", "span", "spread"} THEN sent ELSE sent + 1
       /\ failures' = IF req.fail # "none" THEN failures + 1 ELSE failures
       /\ UNCHANGED <<now, mode, burstRoute, inflight, sessions>>

Serve(req) == Served(req) /\ UNCHANGED admits

GET_root ==
    \E c \in SendClients, o \in SendOrigins :
        /\ Sendable(Request(c, o, "root", 0, NoPayload, NoQuery, "none", <<>>))
        /\ Serve(Request(c, o, "root", 0, NoPayload, NoQuery, "none", <<>>))

GET_health ==
    \E c \in SendClients, o \in SendOrigins :
        /\ Sendable(Request(c, o, "health_check", 0, NoPayload, NoQuery, "none", <<>>))
        /\ Serve(Request(c, o, "health_check", 0, NoPayload, NoQuery, "none", <<>>))

POST_tasks ==
    \E c \in SendClients, o \in SendOrigins, i \in SendCreates, f \in SendFails("create_task") :
        /\ Sendable(Request(c, o, "create_task", 0, CreatePayloads[i], NoQuery, f, <<>>))
        /\ Serve(Request(c, o, "create_task", 0, CreatePayloads[i], NoQuery, f, <<>>))

GET_tasks ==
    \E c \in SendClients, o \in SendOrigins, q \in SendQueries, f \in SendFails("get_tasks"),
       sc \in SendScans :
        /\ Sendable(Request(c, o, "get_tasks", 0, NoPayload, q, f, sc))
        /\ Serve(Request(c, o, "get_tasks", 0, NoPayload, q, f, sc))

GET_stats ==
    \E c \in SendClients, o \in SendOrigins, f \in SendFails("get_task_stats") :
        /\ Sendable(Request(c, o, "get_task_stats", 0, NoPayload, NoQuery, f, HeapOrder(store)))
        /\ Serve(Request(c, o, "get_task_stats", 0, NoPayload, NoQuery, f, HeapOrder(store)))

GET_task ==
    \E c \in SendClients, o \in SendOrigins, id \in SendIds, f \in SendFails("get_task") :
        /\ Sendable(Request(c, o, "get_task", id, NoPayload, NoQuery, f, <<>>))
        /\ Serve(Request(c, o, "get_task", id, NoPayload, NoQuery, f, <<>>))

PATCH_task ==
    \E c \in SendClients, o \in SendOrigins, id \in SendIds, i \in SendUpdates,
       f \in SendFails("update_task") :
        /\ Sendable(Request(c, o, "update_task", id, UpdatePayloads[i], NoQuery, f, <<>>))
        /\ Serve(Request(c, o, "update_task", id, UpdatePayloads[i], NoQuery, f, <<>>))

DELETE_task ==
    \E c \in SendClients, o \in SendOrigins, id \in SendIds, f \in SendFails("delete_task") :
        /\ Sendable(Request(c, o, "delete_task", id, NoPayload, NoQuery, f, <<>>))
        /\ Serve(Request(c, o, "delete_task", id, NoPayload, NoQuery, f, <<>>))

\* a CORS preflight: answered by CORSMiddleware, then SecurityHeadersMiddleware
OPTIONS_preflight ==
    \E o \in Origins \ {NoneValue}, m \in {"POST", "PUT"} :
        /\ mode = "cors" /\ sent < MaxCorsRequests
        /\ resp' = dispatch(CorsPreflight(o, m))
        /\ last' = [NoLast EXCEPT !.kind = "preflight", !.inner = CorsPreflight(o, m)]
        /\ sent' = sent + 1
        /\ UNCHANGED <<store, seq, buckets, now, window, created, deleted, failures,
                       mode, burstRoute, inflight, admits, sessions>>

\* SecurityHeadersMiddleware around a handler that set headers of its own
Dispatch_response ==
    \E response \in HandlerResponses :
        /\ mode = "cors" /\ sent < MaxCorsRequests
        /\ resp' = dispatch(response)
        /\ last' = [NoLast EXCEPT !.kind = "dispatch", !.inner = response]
        /\ sent' = sent + 1
        /\ UNCHANGED <<store, seq, buckets, now, window, created, deleted, failures,
                       mode, burstRoute, inflight, admits, sessions>>

\* time passes
Tick ==
    /\ MayTick
    /\ now' = now + TickStep
    /\ UNCHANGED <<store, seq, buckets, resp, last, window, created, deleted, sent,
                   failures, mode, burstRoute, inflight, admits, sessions>>

Init ==
    /\ store = <<>>
    /\ seq = 0
    /\ buckets = <<>>
    /\ now = 0
    /\ resp = NoResponse
    /\ last = NoLast
    /\ window = <<>>
    /\ created = <<>>
    /\ deleted = <<>>
    /\ sent = 0
    /\ failures = 0
    /\ inflight = NoneInFlight
    /\ admits = <<>>
    /\ sessions = <<>>
    /\ \/ mode \in {"crud", "cors", "fields", "list"} /\ burstRoute = "none"
       \/ mode = "burst" /\ burstRoute \in Routes

Next ==
    \/ GET_root \/ GET_health \/ POST_tasks \/ GET_tasks \/ GET_stats
    \/ GET_task \/ PATCH_task \/ DELETE_task \/ OPTIONS_preflight
    \/ Dispatch_response \/ Tick

Spec == Init /\ [][Next]_vars

\* a run that fills the table beyond what the stats endpoint loads: one client
\* creating tasks as fast as its quota allows, window after window
BulkInit ==
    /\ store = <<>>
    /\ seq = 0
    /\ buckets = <<>>
    /\ now = 0
    /\ resp = NoResponse
    /\ last = NoLast
    /\ window = <<>>
    /\ created = <<>>
    /\ deleted = <<>>
    /\ sent = 0
    /\ failures = 0
    /\ mode = "bulk" /\ burstRoute = "none"
    /\ inflight = NoneInFlight
    /\ admits = <<>>
    /\ sessions = <<>>

BulkNext == POST_tasks \/ GET_stats \/ Tick

BulkSpec == BulkInit /\ [][BulkNext]_vars

\* the log of admitted requests with one more: the instant the request's window
\* opened, the instant the request came, and how many came at that instant
Logged(ad, key, open, at) ==
    LET old == IF key \in DOMAIN ad THEN ad[key] ELSE <<>>
        new == IF old # <<>> /\ old[Len(old)].open = open /\ old[Len(old)].at = at
               THEN [old EXCEPT ![Len(old)].n = @ + 1]
               ELSE Append(old, [open |-> open, at |-> at, n |-> 1])
    IN [k \in DOMAIN ad \cup {key} |-> IF k = key THEN new ELSE ad[k]]

\* a delete of a run that watches when the limiter lets requests through
DELETE_span ==
    \E id \in SendIds :
    \E key \in {key_for(Client1, "delete_task", id)},
       l \in {limited(Request(Client1, NoneValue, "delete_task", id, NoPayload, NoQuery,
                              "none", <<>>), store, seq, buckets, now)} :
        /\ mode \in {"span", "spread"}
        /\ Sendable(Request(Client1, NoneValue, "delete_task", id, NoPayload, NoQuery,
                            "none", <<>>))
        /\ Served(Request(Client1, NoneValue, "delete_task", id, NoPayload, NoQuery,
                          "none", <<>>))
        /\ admits' = IF l.allowed
                      THEN Logged(admits, key, l.buckets[key].expires - Window, now)
                      ELSE admits

SpanInit ==
    /\ store = <<>>
    /\ seq = 0
    /\ buckets = <<>>
    /\ now = 0
    /\ resp = NoResponse
    /\ last = NoLast
    /\ window = <<>>
    /\ created = <<>>
    /\ deleted = <<>>
    /\ sent = 0
    /\ failures = 0
    /\ mode \in {"span", "spread"} /\ burstRoute = "none"
    /\ inflight = NoneInFlight
    /\ admits = <<>>
    /\ sessions = <<>>

SpanNext == DELETE_span \/ Tick

SpanSpec == SpanInit /\ [][SpanNext]_vars

----------------------------------------------------------------------------
(* Concurrent requests.  The endpoints are coroutines on one event loop: a   *)
(* request gives way to others only where it awaits.  slowapi's wrapper      *)
(* counts the request and compares with the quota in ordinary (not awaited)  *)
(* code, so that is one step; the endpoint is called after it and awaits the *)
(* store.                                                                    *)

\* the request every client task of the concurrent run sends
ConcRequest ==
    Request(Client1, NoneValue, "create_task", 0, CreatePayloads[1], NoQuery, "none", <<>>)

\* a request has passed validation and dependency resolution and waits to run
Arrive ==
    /\ mode = "conc"
    /\ sent < RateLimit(ConcRequest.route) + MaxOver
    /\ sent' = sent + 1
    /\ inflight' = [inflight EXCEPT !.waiting = @ + 1]
    /\ UNCHANGED <<store, seq, buckets, now, resp, last, window, created, deleted,
                   failures, mode, burstRoute, admits, sessions>>

\* the limiter's wrapper of a waiting request runs: count, compare, raise or go on
Check ==
    \E l \in {limited(ConcRequest, store, seq, buckets, now)},
       key \in {key_for(ConcRequest.client, ConcRequest.route, ConcRequest.task_id)} :
        /\ mode = "conc"
        /\ inflight.waiting > 0
        /\ buckets' = l.buckets
        /\ inflight' = [waiting |-> inflight.waiting - 1,
                        admitted |-> inflight.admitted + (IF l.allowed THEN 1 ELSE 0)]
        /\ window' = [k \in DOMAIN window \cup {key} |->
                        IF k # key THEN window[k]
                        ELSE [route |-> ConcRequest.route,
                              admitted |->
                                 (IF CountOf(buckets, key, now) > 0
                                  THEN window[key].admitted ELSE 0)
                                 + (IF l.allowed THEN 1 ELSE 0)]]
        /\ resp' = IF l.allowed THEN resp ELSE app(ConcRequest, l.out)
        /\ last' = [NoLast EXCEPT !.req = ConcRequest, !.key = key, !.counted = TRUE,
                                  !.count = l.buckets[key].count,
                                  !.allowed = l.allowed, !.kind = "check"]
        /\ UNCHANGED <<store, seq, now, created, deleted, sent, failures, mode,
                       burstRoute, admits, sessions>>

\* the endpoint of an admitted request runs and its session commits
Run ==
    \E out \in {get_db(ConcRequest, endpoint(ConcRequest, store, seq, now), store)} :
        /\ mode = "conc"
        /\ inflight.admitted > 0
        /\ store' = out.st
        /\ seq' = out.sq
        /\ resp' = app(ConcRequest, out)
        /\ created' = Append(created, out.body.id)
        /\ inflight' = [inflight EXCEPT !.admitted = @ - 1]
        /\ last' = [NoLast EXCEPT !.req = ConcRequest, !.called = TRUE,
                                  !.result = out.result, !.kind = "run"]
        /\ UNCHANGED <<buckets, now, window, deleted, sent, failures, mode, burstRoute,
                       admits, sessions>>

ConcInit ==
    /\ store = <<>>
    /\ seq = 0
    /\ buckets = <<>>
    /\ now = 0
    /\ resp = NoResponse
    /\ last = NoLast
    /\ window = <<>>
    /\ created = <<>>
    /\ deleted = <<>>
    /\ sent = 0
    /\ failures = 0
    /\ mode = "conc" /\ burstRoute = "none"
    /\ inflight = NoneInFlight
    /\ admits = <<>>
    /\ sessions = <<>>

ConcNext == Arrive \/ Check \/ Run

ConcSpec == ConcInit /\ [][ConcNext]_vars

----------------------------------------------------------------------------
(* Requests in stages: app/core/database.py and the awaits of the           *)
(* repository.  A request holds a session of its own from dependency         *)
(* resolution to the end of get_db; it gives way to the other requests at    *)
(* every await on the store.  store is what is committed; a session's writes *)
(* are its own until its COMMIT (isolation level READ COMMITTED, the         *)
(* store's default).  A flushed UPDATE holds the row's lock until the        *)
(* session's transaction ends; a statement on a locked row waits.            *)

Slots == 1..MaxSessions

NoOut == [status |-> 0, exc |-> "none", body |-> <<>>, st |-> <<>>, sq |-> 0,
          result |-> "n/a"]

NoSession == [pc |-> "free", req |-> NoRequest, open |-> FALSE, obj |-> <<>>,
              writes |-> <<>>, out |-> NoOut, ended |-> "none"]

\* what the endpoint yields, without the session's view of the table
Strip(out) == [out EXCEPT !.st = <<>>, !.sq = 0]

\* the requests of a staged run; a store failure strikes the first round trip
\* ("execute"), the refresh after a flush that went through ("refresh"), or the
\* commit ("commit")
StagedRequests ==
    IF mode = "race"
    THEN {Request(Client1, NoneValue, "delete_task", 1, NoPayload, NoQuery, "none", <<>>),
          Request(Client1, NoneValue, "update_task", 1, UpdatePayloads[1], NoQuery,
                  "none", <<>>)}
    ELSE {Request(Client1, NoneValue, "create_task", 0, CreatePayloads[i], NoQuery, f, <<>>) :
              i \in {1, 3}, f \in Fails("create_task") \cup {"refresh"}}
         \cup {Request(Client1, NoneValue, "get_task", id, NoPayload, NoQuery, f, <<>>) :
              id \in TaskIds, f \in Fails("get_task")}
         \cup {Request(Client1, NoneValue, "update_task", 1, UpdatePayloads[i], NoQuery, f, <<>>) :
              i \in {1, 4}, f \in Fails("update_task") \cup {"refresh"}}
         \cup {Request(Client1, NoneValue, "delete_task", id, NoPayload, NoQuery, f, <<>>) :
              id \in TaskIds, f \in Fails("delete_task")}

\* another session holds the lock of the row: it flushed an UPDATE of it and
\* has neither committed nor rolled back
Locked(id, s) ==
    \E t \in Slots \ {s} :
        /\ sessions[t].writes # <<>>
        /\ sessions[t].writes[1].op = "update"
        /\ sessions[t].writes[1].row.id = id

\* the table after a session's writes are committed; a DELETE of a row that is
\* gone matches no row and changes nothing
Applied(st, writes) ==
    IF writes = <<>> THEN st
    ELSE IF writes[1].op = "delete"
    THEN [i \in DOMAIN st \ {writes[1].row.id} |-> st[i]]
    ELSE [i \in DOMAIN st \cup {writes[1].row.id} |->
            IF i = writes[1].row.id THEN writes[1].row ELSE st[i]]

\* flush and refresh of an update: the UPDATE sets the columns whose value the
\* setattr calls changed, the refresh loads the row as it then is
Refreshed(cur, obj, row) ==
    [f \in DOMAIN cur |-> IF row[f] # obj[f] THEN row[f] ELSE cur[f]]

\* what the endpoint of session s yielded, with the table as the session's
\* transaction would leave it
InSession(s) ==
    [sessions[s].out EXCEPT !.st = Applied(store, sessions[s].writes), !.sq = seq]

\* dependency resolution of a request: get_db creates the session and yields it
\* (a "tx" run takes its requests one at a time, a "race" run has one request
\* per slot)
Session_open(s, req) ==
    /\ sent < (IF mode = "tx" THEN MaxStaged ELSE MaxSessions)
    /\ sessions[s].pc = "free"
    /\ \A t \in Slots : t < s => sessions[t].pc # "free"
    /\ mode = "tx" => \A t \in Slots : sessions[t].pc = "free"
    /\ req.fail # "none" => failures < MaxFailures
    /\ sessions' = [sessions EXCEPT ![s] =
                       [NoSession EXCEPT !.pc = IF RequestValid(req) THEN "open"
                                                ELSE "invalid",
                                         !.req = req, !.open = TRUE]]
    /\ sent' = sent + 1
    /\ failures' = IF req.fail # "none" THEN failures + 1 ELSE failures
    /\ UNCHANGED <<store, seq, buckets, now, resp, last, window, created, deleted,
                   mode, burstRoute, inflight, admits>>

\* the request fails validation: the endpoint is not called, and get_db is left
\* either with the error thrown into it or by its normal exit (the framework's
\* releases differ); the session has done nothing either way
Validation_error(s) ==
    /\ sessions[s].pc = "invalid"
    /\ \E thrown \in BOOLEAN :
        /\ sessions' = [sessions EXCEPT ![s].pc = "ended",
                           ![s].out = Strip(route(sessions[s].req, store, seq, buckets,
                                                  now).out),
                           ![s].ended = IF thrown THEN "rollback" ELSE "commit"]
        /\ UNCHANGED <<store, seq, buckets, now, resp, last, window, created, deleted,
                       sent, failures, mode, burstRoute, inflight, admits>>

\* the decorated endpoint is called: the limiter's wrapper counts the request
\* and raises RateLimitExceeded or lets the endpoint start
Endpoint_call(s) ==
    /\ sessions[s].pc = "open"
    /\ \E l \in {limited(sessions[s].req, store, seq, buckets, now)} :
        /\ buckets' = l.buckets
        /\ sessions' = IF l.allowed
                       THEN [sessions EXCEPT ![s].pc = "called"]
                       ELSE [sessions EXCEPT ![s].pc = "returned",
                                             ![s].out = Strip(l.out)]
        /\ UNCHANGED <<store, seq, now, resp, last, window, created, deleted, sent,
                       failures, mode, burstRoute, inflight, admits>>

\* the first round trip of the endpoint to the store: the INSERT of a create,
\* the SELECT of a get, an update or a delete.  A create, a get and a delete
\* then run to their end without another await: session.delete only marks the
\* row, its DELETE is sent by the flush of the commit
Store_execute(s) ==
    /\ sessions[s].pc = "called"
    /\ \E e \in {endpoint(sessions[s].req, store, seq, now)},
          obj \in {TaskService_get_task(store, sessions[s].req.task_id)} :
        /\ seq' = IF sessions[s].req.route = "create_task" THEN e.sq ELSE seq
        /\ sessions' =
             IF /\ sessions[s].req.route = "update_task"
                /\ sessions[s].req.fail # "execute" /\ obj # <<>>
             THEN [sessions EXCEPT ![s].pc = "selected", ![s].obj = obj]
             ELSE [sessions EXCEPT
                      ![s].pc = "returned",
                      ![s].out = IF sessions[s].req.fail = "refresh"
                                 THEN Strip(Raised(store, seq)) ELSE Strip(e),
                      ![s].writes =
                          IF e.status = 201 THEN <<[op |-> "insert", row |-> e.body]>>
                          ELSE IF e.status = 204 THEN <<[op |-> "delete", row |-> obj[1]]>>
                          ELSE <<>>]
        /\ UNCHANGED <<store, buckets, now, resp, last, window, created, deleted, sent,
                       failures, mode, burstRoute, inflight, admits>>

\* the flush and refresh of an update: it waits for the row's lock; it raises
\* when the row is gone (no row matched, or nothing to refresh) or when a NOT
\* NULL column was set to None
Store_flush(s) ==
    /\ sessions[s].pc = "selected"
    /\ ~Locked(sessions[s].req.task_id, s)
    /\ \E cur \in {TaskRepository_get(store, sessions[s].req.task_id)},
          u \in {TaskRepository_update((sessions[s].req.task_id :> sessions[s].obj[1]),
                                       sessions[s].obj[1], sessions[s].req.payload)} :
        /\ sessions' =
             IF cur = <<>> \/ u.raised
             THEN [sessions EXCEPT ![s].pc = "returned",
                                   ![s].out = Strip(Raised(store, seq))]
             ELSE [sessions EXCEPT
                      ![s].pc = "returned",
                      ![s].writes = <<[op |-> "update",
                                       row |-> Refreshed(cur[1], sessions[s].obj[1], u.row)]>>,
                      ![s].out = IF sessions[s].req.fail = "refresh"
                                 THEN Strip(Raised(store, seq))
                                 ELSE Strip(Ok(200, Refreshed(cur[1], sessions[s].obj[1],
                                                              u.row),
                                               store, seq, "Task"))]
        /\ UNCHANGED <<store, seq, buckets, now, resp, last, window, created, deleted,
                       sent, failures, mode, burstRoute, inflight, admits>>

\* get_db after the endpoint returned: session.commit(), which flushes what is
\* pending (the DELETE of a marked row waits for the row's lock) and commits;
\* a commit that fails lands in the except branch
Session_commit(s) ==
    /\ sessions[s].pc = "returned"
    /\ sessions[s].out.exc = "none"
    /\ sessions[s].writes # <<>> => ~Locked(sessions[s].writes[1].row.id, s)
    /\ \E g \in {get_db(sessions[s].req, InSession(s), store)} :
        /\ store' = g.st
        /\ sessions' = [sessions EXCEPT ![s].pc = "ended", ![s].writes = <<>>,
                           ![s].out = Strip(g),
                           ![s].ended = IF g.exc = "none" THEN "commit" ELSE "rollback"]
        /\ UNCHANGED <<seq, buckets, now, resp, last, window, created, deleted, sent,
                       failures, mode, burstRoute, inflight, admits>>

\* get_db after the endpoint raised: session.rollback(), and the exception goes on
Session_rollback(s) ==
    /\ sessions[s].pc = "returned"
    /\ sessions[s].out.exc # "none"
    /\ \E g \in {get_db(sessions[s].req, InSession(s), store)} :
        /\ store' = g.st
        /\ sessions' = [sessions EXCEPT ![s].pc = "ended", ![s].writes = <<>>,
                           ![s].out = Strip(g), ![s].ended = "rollback"]
        /\ UNCHANGED <<seq, buckets, now, resp, last, window, created, deleted,
                       sent, failures, mode, burstRoute, inflight, admits>>

\* the finally of get_db: session.close(); the response leaves
Session_close(s) ==
    /\ sessions[s].pc = "ended"
    /\ sessions' = [sessions EXCEPT ![s] = NoSession]
    /\ resp' = app(sessions[s].req, sessions[s].out)
    /\ last' = [NoLast EXCEPT !.req = sessions[s].req, !.result = sessions[s].ended,
                              !.kind = "closed"]
    /\ created' = IF sessions[s].out.status = 201
                  THEN Append(created, sessions[s].out.body.id) ELSE created
    /\ deleted' = IF sessions[s].out.status = 204
                  THEN Append(deleted, sessions[s].req.task_id) ELSE deleted
    /\ UNCHANGED <<store, seq, buckets, now, window, sent, failures, mode, burstRoute,
                   inflight, admits>>

Open == \E s \in Slots, req \in StagedRequests : Session_open(s, req)
Invalid == \E s \in Slots : Validation_error(s)
Call == \E s \in Slots : Endpoint_call(s)
Execute == \E s \in Slots : Store_execute(s)
Flush == \E s \in Slots : Store_flush(s)
Commit == \E s \in Slots : Session_commit(s)
Rollback == \E s \in Slots : Session_rollback(s)
Close == \E s \in Slots : Session_close(s)

\* the next stage of a request in progress
Advance == Invalid \/ Call \/ Execute \/ Flush \/ Commit \/ Rollback \/ Close

\* a staged run starts where one client has created task 1 and has then used up
\* its delete quota on /api/v1/tasks/2 (answered 404 each time)
TxInit ==
    /\ store = TaskService_create_task(<<>>, 0, CreatePayloads[1], 0).st
    /\ seq = 1
    /\ buckets = (key_for(Client1, "create_task", 0) :> [count |-> 1, expires |-> Window])
                 @@ (key_for(Client1, "delete_task", 2) :>
                        [count |-> RateLimit("delete_task"), expires |-> Window])
    /\ now = 0
    /\ resp = NoResponse
    /\ last = NoLast
    /\ window = <<>>
    /\ created = <<1>>
    /\ deleted = <<>>
    /\ sent = 0
    /\ failures = 0
    /\ mode \in {"tx", "race"} /\ burstRoute = "none"
    /\ inflight = NoneInFlight
    /\ admits = <<>>
    /\ sessions = [s \in Slots |-> NoSession]

TxNext == Open \/ Invalid \/ Call \/ Execute \/ Flush \/ Commit \/ Rollback \/ Close

\* the event loop keeps resuming the coroutines that can go on, and the store
\* hands a released lock to a statement that waits for it
TxSpec == TxInit /\ [][TxNext]_vars /\ WF_vars(Advance)

----------------------------------------------------------------------------
(* Properties *)

Range(f) == {f[i] : i \in DOMAIN f}

IsRequest == last.kind = "request"

\* the quotas as the specification lists them
DeclaredQuota(r) ==
    CASE r = "root" -> 100
      [] r = "health_check" -> 200
      [] r = "get_tasks" -> 100
      [] r = "create_task" -> 20
      [] r = "update_task" -> 30
      [] r = "delete_task" -> 20
      [] r = "get_task_stats" -> 50
      [] r = "get_task" -> 100

\* C1: the k-th request counted in a bucket's window reaches the endpoint when
\* k <= N and is answered 429 when k > N, N the declared quota of the route; so a
\* window has let through min(k, N) requests after its k-th, and of 25 rapid valid
\* creates the first 20 get 201 and the rest 429.
C1_QuotaEnforced ==
    (IsRequest /\ last.counted) =>
        LET n == DeclaredQuota(last.req.route)
        IN /\ last.allowed <=> last.count <= n
           /\ last.called <=> last.count <= n
           /\ resp.status = 429 <=> last.count > n
           /\ window[last.key].admitted = Min(last.count, n)
           /\ (last.req.route = "create_task" /\ last.req.fail = "none" /\ last.count <= n)
                 => resp.status = 201

C1_Witness ==
    /\ IsRequest /\ last.req.route = "create_task"
    /\ last.count = 25 /\ resp.status = 429
    /\ window[last.key].admitted = 20
    /\ Len(created) = 20

\* the seven hardening headers and the values the specification fixes for them
HardeningHeaders ==
    {"x-content-type-options", "x-frame-options", "x-xss-protection",
     "strict-transport-security", "content-security-policy", "referrer-policy",
     "permissions-policy"}

Hardened(r) ==
    /\ HardeningHeaders \subseteq DOMAIN r.headers
    /\ r.headers["x-content-type-options"] = "nosniff"
    /\ r.headers["x-frame-options"] = "DENY"
    /\ r.headers["x-xss-protection"] = "1; mode=block"
    /\ r.headers["strict-transport-security"] = "max-age=31536000; includeSubDomains"
    /\ r.headers["referrer-policy"] = "strict-origin-when-cross-origin"
    /\ r.headers["permissions-policy"] = "geolocation=(), microphone=()"

\* C2: a response of an endpoint or of error mapping (2xx, 404, 422, 429, a
\* preflight answer) that did not carry the hardening headers leaves with all
\* seven, at their fixed values.
C2_HandledResponsesHardened ==
    (last.kind \in {"request", "preflight"}
        /\ resp.status \in {200, 201, 204, 400, 404, 422, 429})
      => Hardened(resp)

C2_Witness ==
    /\ IsRequest /\ last.req.route = "get_task" /\ resp.status = 404
    /\ Hardened(resp)

\* C3: every response carries the hardening headers, the 5xx answer to a store
\* failure that no exception handler maps included.
C3_EveryResponseHardened ==
    last.kind \in {"request", "preflight"} => Hardened(resp)

C5_WindowReset ==
    (IsRequest /\ last.counted) =>
        IF last.priorExpires = 0
        THEN last.count = 1 /\ buckets[last.key].expires = last.at + 60
        ELSE IF last.at - (last.priorExpires - 60) >= 60
        THEN /\ last.count = 1
             /\ buckets[last.key].expires = last.at + 60
             /\ last.allowed /\ resp.status # 429
        ELSE /\ last.count = last.prior + 1
             /\ buckets[last.key].expires = last.priorExpires

C5_Witness ==
    /\ IsRequest /\ last.counted
    /\ last.prior > DeclaredQuota(last.req.route)
    /\ last.at >= last.priorExpires
    /\ last.count = 1 /\ last.allowed /\ resp.status = 201

\* C6: all requests of one client to one route share one bucket, whatever the
\* path parameter.
C6_OneBucketPerClientRoute ==
    \A k1 \in DOMAIN window, k2 \in DOMAIN window :
        (k1[1] = k2[1] /\ window[k1].route = window[k2].route) => k1 = k2

\* C7: a request answered 429 never reaches the service or the repository and
\* leaves the task table and its id sequence as they were.
C7_RejectedBeforeHandler ==
    [][(buckets' # buckets /\ resp'.status = 429)
         => (/\ store' = store /\ seq' = seq
             /\ created' = created /\ deleted' = deleted
             /\ ~last'.called)]_vars

C7_Witness ==
    /\ IsRequest /\ resp.status = 429
    /\ last.req.route = "delete_task" /\ last.req.task_id \in DOMAIN store

\* C8: the id a create returns is positive and differs from every id a create
\* returned before, those of deleted tasks included.
C8_IdsPositiveUnique ==
    /\ \A i \in DOMAIN created : created[i] > 0
    /\ \A i \in DOMAIN created, j \in DOMAIN created : i # j => created[i] # created[j]
    /\ (IsRequest /\ resp.status = 201) => resp.body.id = created[Len(created)]

C8_Witness ==
    /\ IsRequest /\ resp.status = 201
    /\ Len(created) >= 2 /\ Len(deleted) >= 1
    /\ \E i \in DOMAIN created : created[i] \in Range(deleted) /\ created[i] < resp.body.id

\* C9: once a delete of X returned 204, X is not in the table; a get or delete
\* of X that reaches the service without a store failure is answered 404, so no
\* id is deleted with 204 twice.
C9_DeletedStaysGone ==
    /\ \A x \in Range(deleted) : x \notin DOMAIN store
    /\ \A i \in DOMAIN deleted, j \in DOMAIN deleted : i # j => deleted[i] # deleted[j]
    /\ (/\ IsRequest /\ last.called /\ last.req.fail = "none"
        /\ last.req.route \in {"get_task", "delete_task"}
        /\ last.req.task_id \in Range(deleted))
         => \/ resp.status = 404
            \/ /\ last.req.route = "delete_task" /\ resp.status = 204
               /\ deleted[Len(deleted)] = last.req.task_id

C9_Witness ==
    /\ IsRequest /\ last.req.route = "get_task" /\ last.called
    /\ last.req.task_id \in Range(deleted)
    /\ resp.status = 404

\* C10: a get, update or delete of an id that is not in the table is answered
\* 404 with a detail naming the id, the service having returned None (get,
\* update) or False (delete), and the table is unchanged.
C10_AbsentIdNotFound ==
    [][(/\ buckets' # buckets
        /\ last'.req.route \in IdRoutes /\ last'.called /\ last'.req.fail = "none"
        /\ last'.req.task_id \notin DOMAIN store)
         => (/\ resp'.status = 404
             /\ resp'.body = [detail |-> "Task with id " \o ToString(last'.req.task_id)
                                           \o " not found"]
             /\ last'.result = (IF last'.req.route = "delete_task" THEN "False" ELSE "None")
             /\ store' = store)]_vars

C10_Witness ==
    /\ IsRequest /\ last.req.route = "update_task" /\ last.called
    /\ last.req.task_id \notin DOMAIN store
    /\ resp.status = 404 /\ last.result = "None"

PayloadFields == {"title", "description", "priority", "status", "due_date"}

\* C11: an update answered 200 leaves every field that its body does not name
\* as it was, gives every field it names the body's value, keeps id and
\* created_at, and touches no other task.
C11_PartialUpdateFrame ==
    [][(buckets' # buckets /\ last'.req.route = "update_task" /\ resp'.status = 200)
         => LET id == last'.req.task_id
                p == last'.req.payload
            IN /\ id \in DOMAIN store
               /\ DOMAIN store' = DOMAIN store
               /\ \A f \in PayloadFields \ DOMAIN p : store'[id][f] = store[id][f]
               /\ \A f \in (DOMAIN p \cap PayloadFields) \ {"due_date"} :
                     store'[id][f] = p[f]
               /\ store'[id].id = id
               /\ store'[id].created_at = store[id].created_at
               /\ \A j \in DOMAIN store \ {id} : store'[j] = store[j]
               /\ resp'.body = store'[id]]_vars

C11_Witness ==
    /\ IsRequest /\ last.req.route = "update_task" /\ resp.status = 200
    /\ DOMAIN last.req.payload = {"status"}
    /\ store[1].status = "done" /\ store[1].priority = "high"
    /\ store[1].title = X200 /\ store[1].description = "d"
    /\ store[1].due_date = "2026-12-31T23:59:59"

\* the constraints of a task as the specification states them
TitleOk(v) == v # NoneValue /\ Len(v) >= 1 /\ Len(v) <= 200
PriorityOk(v) == v \in {"low", "medium", "high"}
StatusOk(v) == v \in {"todo", "in_progress", "done", "cancelled"}
DescriptionOk(v) == v = NoneValue \/ Len(v) <= 2000

\* a body that supplies a value outside the constraints
OutOfConstraint(p) ==
    \/ "title" \in DOMAIN p /\ ~TitleOk(p.title)
    \/ "priority" \in DOMAIN p /\ ~PriorityOk(p.priority)
    \/ "status" \in DOMAIN p /\ ~StatusOk(p.status)

\* C12: every stored task has a title of 1 to 200 characters, a priority and a
\* status of their enumerations, and a create or update whose body carries a
\* value outside these constraints is turned away at the boundary (422, the
\* service not reached).
C12_ConstraintsAtBoundary ==
    /\ \A i \in DOMAIN store :
          TitleOk(store[i].title) /\ PriorityOk(store[i].priority)
              /\ StatusOk(store[i].status)
    /\ (/\ IsRequest /\ last.req.route \in {"create_task", "update_task"}
        /\ OutOfConstraint(last.req.payload))
         => (resp.status = 422 /\ ~last.called)

\* C13: an update of an existing task whose body supplies a value that violates
\* the constraints is answered 422, does not reach the service, and leaves the
\* task as it was.
C13_InvalidUpdateRejected ==
    [][(/\ buckets' # buckets \/ sent' # sent
        /\ last'.kind = "request" /\ last'.req.route = "update_task"
        /\ last'.req.task_id \in DOMAIN store
        /\ \/ OutOfConstraint(last'.req.payload)
           \/ /\ "description" \in DOMAIN last'.req.payload
              /\ ~DescriptionOk(last'.req.payload.description))
         => (resp'.status = 422 /\ ~last'.called /\ store' = store)]_vars

IsList == IsRequest /\ last.req.route = "get_tasks"

\* a task satisfies the filters a list request supplies
Satisfies(row, q) ==
    /\ q.status # NoneValue => row.status = q.status
    /\ q.priority # NoneValue => row.priority = q.priority

\* C14: a list request that is served returns at most limit tasks, each of them
\* satisfying every supplied filter, and the total that accompanies the page in
\* the service's result is the number of stored tasks that satisfy the filters.
C14_ListFiltered ==
    (IsList /\ last.called /\ resp.status = 200) =>
        LET q == last.req.query
            r == TaskService_get_tasks(store, q.skip, q.limit, q.status, q.priority,
                                       last.req.scan)
        IN /\ resp.body.tasks = r.tasks
           /\ Len(r.tasks) <= q.limit
           /\ \A k \in DOMAIN r.tasks : Satisfies(r.tasks[k], q)
           /\ r.total = Cardinality({i \in DOMAIN store : Satisfies(store[i], q)})

\* C15: with a fixed filter (absent or a member of its enumeration) and no write
\* in between, the pages at skip = 0, limit, 2*limit, ... share no task, and once
\* a page comes back short they hold every task that satisfies the filter.
C15_PagesPartition ==
    (/\ IsList /\ resp.status = 200 /\ last.pages # <<>>
     /\ last.req.query.status \in Status \cup {NoneValue}
     /\ last.req.query.priority \in Priority \cup {NoneValue})
      => LET pages == last.pages
             slots == {<<p, k>> : p \in DOMAIN pages, k \in 1..last.req.query.limit}
             used == {sl \in slots : sl[2] <= Len(pages[sl[1]])}
         IN /\ \A a \in used, b \in used :
                  a # b => pages[a[1]][a[2]] # pages[b[1]][b[2]]
            /\ Len(pages[Len(pages)]) < last.req.query.limit
                  => {pages[a[1]][a[2]] : a \in used}
                        = {i \in DOMAIN store : Satisfies(store[i], last.req.query)}

\* C16: a list request with skip < 0, limit outside 1..100, or a status or
\* priority filter that is no member of its enumeration is answered 422 and does
\* not reach the service.
C16_ListParametersValidated ==
    (/\ IsList
     /\ \/ last.req.query.skip < 0
        \/ last.req.query.limit < 1 \/ last.req.query.limit > 100
        \/ last.req.query.status \notin {"todo", "in_progress", "done", "cancelled", NoneValue}
        \/ last.req.query.priority \notin {"low", "medium", "high", NoneValue})
      => (resp.status = 422 /\ ~last.called)

IsStats == IsRequest /\ last.req.route = "get_task_stats" /\ resp.status = 200

\* the entry of a frequency map, 0 for a value it does not list
Entry(m, v) == IF v \in DOMAIN m THEN m[v] ELSE 0

SumByStatus(b) ==
    Entry(b.by_status, "todo") + Entry(b.by_status, "in_progress")
        + Entry(b.by_status, "done") + Entry(b.by_status, "cancelled")

SumByPriority(b) ==
    Entry(b.by_priority, "low") + Entry(b.by_priority, "medium")
        + Entry(b.by_priority, "high")

\* C17: for a table of at most 1000 tasks the stats response has
\* sum(by_status) = sum(by_priority) = total, and every entry of the two maps is
\* the number of stored tasks with that status or priority.
C17_StatsSums ==
    (IsStats /\ Cardinality(DOMAIN store) <= 1000) =>
        /\ resp.body.total = Cardinality(DOMAIN store)
        /\ SumByStatus(resp.body) = resp.body.total
        /\ SumByPriority(resp.body) = resp.body.total
        /\ DOMAIN resp.body.by_status \subseteq {"todo", "in_progress", "done", "cancelled"}
        /\ DOMAIN resp.body.by_priority \subseteq {"low", "medium", "high"}
        /\ \A v \in {"todo", "in_progress", "done", "cancelled"} :
              Entry(resp.body.by_status, v)
                 = Cardinality({i \in DOMAIN store : store[i].status = v})
        /\ \A v \in {"low", "medium", "high"} :
              Entry(resp.body.by_priority, v)
                 = Cardinality({i \in DOMAIN store : store[i].priority = v})

C17_Witness ==
    /\ IsStats /\ resp.body.total = 2
    /\ Entry(resp.body.by_status, "todo") = 2
    /\ Entry(resp.body.by_priority, "medium") = 2

\* C18: the stats endpoint loads at most 1000 tasks, and the total it reports is
\* the number of tasks it loaded, the ones its two maps count, whatever the size
\* of the table.
C18_StatsTotalIsFetched ==
    IsStats =>
        /\ SumByStatus(resp.body) <= 1000
        /\ resp.body.total = SumByStatus(resp.body)
        /\ resp.body.total = SumByPriority(resp.body)

\* a create body that meets the constraints
ValidCreate(p) ==
    /\ "title" \in DOMAIN p /\ TitleOk(p.title)
    /\ "description" \in DOMAIN p => DescriptionOk(p.description)
    /\ "priority" \in DOMAIN p => PriorityOk(p.priority)
    /\ "status" \in DOMAIN p => StatusOk(p.status)

\* C19: a valid create that is neither rate-limited nor hit by a store failure
\* returns 201 with the task as stored: priority medium and status todo where
\* the body leaves them out, and for title, description, priority and status the
\* value the body supplies.
C19_CreateDefaults ==
    (/\ IsRequest /\ last.req.route = "create_task" /\ last.req.fail = "none"
     /\ ValidCreate(last.req.payload)
     /\ last.counted => last.allowed)
      => /\ resp.status = 201
         /\ resp.body.id \in DOMAIN store /\ store[resp.body.id] = resp.body
         /\ \A f \in {"title", "description", "priority", "status"}
                        \cap DOMAIN last.req.payload :
               resp.body[f] = last.req.payload[f]
         /\ "priority" \notin DOMAIN last.req.payload => resp.body.priority = "medium"
         /\ "status" \notin DOMAIN last.req.payload => resp.body.status = "todo"

C19_Witness ==
    /\ IsRequest /\ last.req.route = "create_task" /\ resp.status = 201
    /\ DOMAIN last.req.payload = {"title"}
    /\ resp.body.title = "Buy milk"
    /\ resp.body.priority = "medium" /\ resp.body.status = "todo"
    /\ store[resp.body.id] = resp.body

ConcKey == <<"10.0.0.1", "/api/v1/tasks/", 20>>

\* C20: with requests of one key in flight together, every request that went
\* through the limiter is counted (no increment is lost), and the requests
\* admitted to the handler in one window never number more than the quota.
C20_NoLostIncrement ==
    /\ \A k \in DOMAIN window : window[k].admitted <= DeclaredQuota(window[k].route)
    /\ ConcKey \in DOMAIN buckets =>
          /\ buckets[ConcKey].count = sent - inflight.waiting
          /\ window[ConcKey].admitted = inflight.admitted + Len(created)
          /\ inflight.admitted + Len(created) <= 20
    /\ Cardinality(DOMAIN store) = Len(created)

C20_Witness ==
    /\ inflight.waiting > 0 /\ inflight.admitted > 1
    /\ ConcKey \in DOMAIN buckets /\ buckets[ConcKey].count > 20
    /\ window[ConcKey].admitted = 20
    /\ resp.status = 429

\* the sum of f over the set S
RECURSIVE SumOver(_, _)
SumOver(S, f) ==
    IF S = {} THEN 0
    ELSE LET x == CHOOSE y \in S : TRUE IN f[x] + SumOver(S \ {x}, f)

\* the log entries of client c on route r that fall in the 60 seconds from s on
InSpan(c, r, s) ==
    {e \in UNION {{<<k, i>> : i \in DOMAIN admits[k]} : k \in DOMAIN admits} :
        /\ e[1][1] = c /\ window[e[1]].route = r
        /\ admits[e[1]][e[2]].at >= s /\ admits[e[1]][e[2]].at <= s + 60}

AdmittedIn(E) == SumOver(E, [e \in E |-> admits[e[1]][e[2]].n])

\* the entries of E are two consecutive windows of one bucket, n requests of each
Straddles(E, n) ==
    \E a \in E, b \in E :
        /\ a[1] = b[1]
        /\ \A e \in E : e[1] = a[1]
        /\ admits[a[1]][a[2]].open + 60 <= admits[b[1]][b[2]].open
        /\ \A e \in E : admits[e[1]][e[2]].open
                            \in {admits[a[1]][a[2]].open, admits[b[1]][b[2]].open}
        /\ \A i \in DOMAIN admits[a[1]] :
              ~ (/\ admits[a[1]][i].open > admits[a[1]][a[2]].open
                 /\ admits[a[1]][i].open < admits[b[1]][b[2]].open)
        /\ AdmittedIn({e \in E : admits[e[1]][e[2]].open = admits[a[1]][a[2]].open}) = n
        /\ AdmittedIn({e \in E : admits[e[1]][e[2]].open = admits[b[1]][b[2]].open}) = n

\* C21: for a client and a route, the requests admitted to the handler within
\* any 60 seconds number at most twice the quota, and they number twice the
\* quota only when they are the full quotas of two consecutive windows, the
\* span reaching across the boundary between them.
C21_BurstBound ==
    \A k \in DOMAIN admits : \A i \in DOMAIN admits[k] :
        LET E == InSpan(k[1], window[k].route, admits[k][i].at)
            n == DeclaredQuota(window[k].route)
        IN /\ AdmittedIn(E) <= 2 * n
           /\ AdmittedIn(E) = 2 * n => Straddles(E, n)

\* C22: every request to a rate-limited route, whatever its outcome (2xx, 404,
\* 422), is counted in the bucket of its key before it is validated and before
\* the endpoint runs: a request that fails validation uses up quota, and a
\* request that finds its bucket's quota used up is answered 429.
C22_CountedBeforeValidation ==
    IsRequest =>
        /\ last.counted
        /\ buckets[last.key].count
              = (IF last.priorExpires > last.at THEN last.prior ELSE 0) + 1
        /\ (last.priorExpires > last.at /\ last.prior >= DeclaredQuota(last.req.route))
              => resp.status = 429
        /\ last.called => last.allowed

\* C24: no step changes the id, created_at or updated_at of a task that stays in
\* the table, and an update answered 200 returns the task with the id it was
\* addressed by and the created_at and updated_at it had, whatever its body
\* names and however many updates came before.
C24_UpdateKeepsStamps ==
    [][/\ \A i \in DOMAIN store \cap DOMAIN store' :
             /\ store'[i].id = i /\ store[i].id = i
             /\ store'[i].created_at = store[i].created_at
             /\ store'[i].updated_at = store[i].updated_at
       /\ (/\ buckets' # buckets /\ last'.req.route = "update_task"
           /\ resp'.status = 200)
            => /\ resp'.body.id = last'.req.task_id
               /\ resp'.body.created_at = store[last'.req.task_id].created_at
               /\ resp'.body.updated_at = store[last'.req.task_id].updated_at]_vars

C24_Witness ==
    /\ IsRequest /\ last.req.route = "update_task" /\ resp.status = 200
    /\ last.at > store[last.req.task_id].created_at
    /\ store[last.req.task_id].status = "done"
    /\ resp.body.updated_at = store[last.req.task_id].created_at
    /\ resp.body.id = last.req.task_id

C25_OneDeleteSucceeds ==
    /\ \A i \in DOMAIN deleted :
          Cardinality({j \in DOMAIN deleted : deleted[j] = deleted[i]}) = 1
    /\ (mode = "race" /\ last.kind = "closed") =>
          IF last.req.route = "delete_task" THEN resp.status \in {204, 404}
          ELSE resp.status \in {200, 404}

====
